---- MODULE Spec2Model ----
(***************************************************************************)
(* Zyntrain AI: the per-user JSON document store of server.js, the task   *)
(* and chat endpoints built on it, and the dashboard's AIChatManager.     *)
(*                                                                         *)
(* One authenticated user is modelled.  A request handler is a process    *)
(* that advances from one await to the next; fs.writeFile is the open     *)
(* (truncate) followed by the write of the serialized document, as Node    *)
(* performs it.                                                            *)
(***************************************************************************)
EXTENDS Integers, Sequences, FiniteSets, TLC

\* ------------------------------------------------------------------ bounds
MaxCreates == 1        \* POST /api/tasks requests in one behaviour
MaxChatPosts == 102    \* chat entries stored in one behaviour
MaxSends == 12         \* sendMessage calls of a day, and requests they send
MaxListCreates == 2    \* POST /api/tasks requests handled one at a time
MaxSortLen == 3        \* tasks in a list handed to sortTasks
MaxReorderLen == 3     \* tasks in a list handed to suggestTaskReorder
MaxDashTasks == 3      \* tasks the dashboard ever holds in one behaviour
MaxLogins == 1         \* 2FA codes generated in one behaviour
MaxWords == 3          \* words of a message handed to generateResponse
MaxOptimizations == 1  \* calls of optimizeWithAI in one behaviour

\* two request handlers may be in flight at once
Procs == {1, 2}

VARIABLES
  files,       \* the user's documents on disk, by file name
  req,         \* the locals of each request handler and where it stands
  nextId,      \* generateUserId(): the identifiers handed out so far
  last,        \* the response sent most recently
  lastWrite,   \* the document of the latest completed write of tasks.json
  rd,          \* the latest call of readUserFile and what it gave
  wr,          \* a call of writeUserFile under way
  chats,       \* AIChatManager.chats of the dashboard
  snd,         \* the calls of sendMessage under way
  clr,         \* the call of clearChat under way
  limiterHits, \* aiChatLimiter: requests of the user counted in the window
  chatSerial,  \* identifiers given to chat entries so far
  hist,        \* the entries stored by POST /api/ai/chats since the last clear
  cstat,       \* the attempts of the day: how many, and what became of them
  otherFiles,  \* the documents of a second user, by file name
  gate,        \* the latest request to a protected route and what became of it
  pref,       \* the preferences saved last and before, and the latest GET since
  page,        \* the latest call of a function of the dashboard: input and result
  auth         \* the account, the requests to /api/auth and what they returned

taskVars == <<files, req, nextId, last, lastWrite>>

storeVars == <<rd, wr>>

chatVars == <<chats, snd, clr, limiterHits, chatSerial, hist, cstat>>

taskVarsButFiles == <<req, nextId, last, lastWrite>>

gateVars == <<otherFiles, gate>>

prefsVars == <<pref>>

pageVars == <<page>>

\* what the task, store and chat specifications leave alone
laterVars == <<otherFiles, gate, pref, page, auth>>

authVars == <<auth>>

\* ------------------------------------------------------------- JSON values
\* A JSON object is a record whose domain is the set of fields present.
\* null is the string "null"; every ISO timestamp is the string "ts".
Merge(a, b) ==
  [f \in (DOMAIN a) \cup (DOMAIN b) |-> IF f \in DOMAIN b THEN b[f] ELSE a[f]]

Has(o, f) == f \in DOMAIN o

\* JS truthiness of a field that may be absent: a boolean field is truthy
\* when true, a string field when neither null nor the empty string
Truthy(o, f) ==
  /\ Has(o, f)
  /\ IF f = "completed" THEN o[f] = TRUE ELSE o[f] \notin {"null", ""}

\* sum of the function f over the subset S of its domain
RECURSIVE SumOver(_, _)
SumOver(S, f) ==
  IF S = {} THEN 0
  ELSE LET x == CHOOSE y \in S : TRUE IN f[x] + SumOver(S \ {x}, f)

KeyLen(k) ==
  CASE k = "id" -> 2
    [] k = "title" -> 5
    [] k = "description" -> 11
    [] k = "completed" -> 9
    [] k = "completedAt" -> 11
    [] k = "createdAt" -> 9
    [] OTHER -> 1

\* length of the serialized value: ids are UUID strings, timestamps ISO strings
ValueLen(k, v) ==
  CASE k = "id" -> 38
    [] k = "completed" -> (IF v = TRUE THEN 4 ELSE 5)
    [] k \in {"completedAt", "createdAt"} -> (IF v = "null" THEN 4 ELSE 26)
    [] k \in {"title", "description"} -> (IF v = "" THEN 2 ELSE 3)
    [] OTHER -> 1

\* bytes of JSON.stringify(task, null, 2) inside an array
TaskLen(t) ==
  LET line == [k \in DOMAIN t |-> 4 + (KeyLen(k) + 2) + 2 + ValueLen(k, t[k]) + 2]
  IN 4 + SumOver(DOMAIN t, line) - 1 + 3

\* bytes of JSON.stringify(tasks, null, 2)
JsonLen(doc) ==
  IF doc = <<>> THEN 2
  ELSE LET one == [i \in DOMAIN doc |-> TaskLen(doc[i]) + 2]
       IN 2 + SumOver(DOMAIN doc, one) - 1 + 1

\* ------------------------------------------------------------------ files
\* A file is missing, holds a parseable document ("ok"), is empty (opened
\* with truncation, nothing written yet) or holds bytes that do not parse.
Resources ==
  {"tasks.json", "aichat.json", "schedule.json", "preferences.json", "analytics.json"}

NoFile == [st |-> "missing", doc |-> <<>>, len |-> 0]

DefaultPreferences ==
  [workingHours |-> [start |-> "09:00", end |-> "17:00"],
   energyPeaks |-> <<"morning">>,
   preferredBreakDuration |-> 15,
   focusBlockLength |-> 60,
   workDays |-> <<"monday", "tuesday", "wednesday", "thursday", "friday">>,
   notifications |-> [taskReminders |-> TRUE, aiSuggestions |-> TRUE,
                      breakReminders |-> TRUE, weeklyReports |-> TRUE]]

\* analytics.json: focusTime is kept in tenths of an hour, as it is rounded;
\* the random trends and the per-day series take no part in any property
DefaultAnalytics ==
  [totalTasks |-> 0, completedToday |-> 0, focusTime |-> 0]

DefaultSchedule ==
  [events |-> <<>>, optimizedSchedule |-> <<>>, lastOptimized |-> "null"]

getDefaultData(filename) ==
  CASE filename = "tasks.json" -> <<>>
    [] filename = "aichat.json" -> <<>>
    [] filename = "schedule.json" -> DefaultSchedule
    [] filename = "preferences.json" -> DefaultPreferences
    [] filename = "analytics.json" -> DefaultAnalytics
    [] OTHER -> <<>>

\* What ensureUserDirectory + fs.readFile + JSON.parse produce: the error
\* code raised ("none" when the document was read) and the document.
\* fault is an I/O failure of the medium (mkdir or read: EACCES, EIO, ...).
RawRead(f, fault) ==
  IF fault # "none" THEN [err |-> fault, data |-> <<>>]
  ELSE IF f.st = "missing" THEN [err |-> "ENOENT", data |-> <<>>]
  ELSE IF f.st = "ok" THEN [err |-> "none", data |-> f.doc]
  ELSE [err |-> "SyntaxError", data |-> <<>>]

\* variant of readUserFile whose catch answers every error with the default
readUserFile_SwallowAll(f, filename, fault) ==
  LET r == RawRead(f, fault)
  IN IF r.err # "none" THEN [err |-> "none", data |-> getDefaultData(filename)]
     ELSE r

\* the catch of readUserFile: ENOENT gives the default, the rest is rethrown
readUserFile(f, filename, fault) ==
  LET r == RawRead(f, fault)
  IN IF r.err = "ENOENT" THEN [err |-> "none", data |-> getDefaultData(filename)]
     ELSE r

\* fs.writeFile, first half: open with O_TRUNC | O_CREAT
OpenTruncate(f) == [st |-> "empty", doc |-> <<>>, len |-> 0]

\* fs.writeFile, second half: the bytes are written from offset 0 of the
\* writer's own descriptor; bytes another writer put beyond them remain.
WriteBytes(f, doc, n) ==
  IF n >= f.len THEN [st |-> "ok", doc |-> doc, len |-> n]
  ELSE [st |-> "corrupt", doc |-> <<>>, len |-> f.len]

Faults == {"none", "EACCES"}

\* ------------------------------------------------- task request handlers
\* request bodies a client can send: the dashboard form and toggleComplete,
\* and what any other holder of the bearer token may post
FormBodies == { [title |-> "t"] }

ToggleBodies ==
  { [completed |-> TRUE, completedAt |-> "ts"],
    [completed |-> FALSE, completedAt |-> "null"] }

AnyPostBodies ==
  FormBodies \cup
  { [title |-> ""],
    [description |-> "d"],
    [title |-> "t", completedAt |-> "ts"] }

AnyPutBodies ==
  ToggleBodies \cup { [completed |-> TRUE], [title |-> ""] }

\* schemas.task of the validation middleware: title is required, 1 to 255
\* characters; no route of server.js applies it
TitleValid(body) == Has(body, "title") /\ body.title # ""

NoBody == [none |-> TRUE]

IdleReq ==
  [pc |-> "idle", kind |-> "none", id |-> 0, body |-> NoBody, tasks |-> <<>>,
   an |-> DefaultAnalytics, result |-> 0, anFailed |-> FALSE, alone |-> FALSE]

NoResponse == [result |-> 0, anFailed |-> FALSE]

\* the locals a handler no longer uses once tasks.json has been read
Forget(r) == [r EXCEPT !.kind = "none", !.id = 0, !.body = NoBody]

InFlight(p) == req[p].pc # "idle"

Quiescent == \A p \in Procs : ~InFlight(p)

\* the task built by POST /api/tasks
NewTask(id, taskData) ==
  Merge(Merge([id |-> id], taskData), [completed |-> FALSE, createdAt |-> "ts"])

\* tasks.findIndex(task => task.id === taskId), 0 for -1
FindIndex(tasks, taskId) ==
  IF \E i \in DOMAIN tasks : tasks[i].id = taskId
  THEN CHOOSE i \in DOMAIN tasks :
         /\ tasks[i].id = taskId
         /\ \A j \in DOMAIN tasks : tasks[j].id = taskId => i <= j
  ELSE 0

\* tasks.filter(task => task.id !== taskId)
RECURSIVE FilterOut(_, _)
FilterOut(tasks, taskId) ==
  IF tasks = <<>> THEN <<>>
  ELSE IF Head(tasks).id = taskId THEN FilterOut(Tail(tasks), taskId)
  ELSE <<Head(tasks)>> \o FilterOut(Tail(tasks), taskId)

\* the catch block of a route handler
Respond500(r) == [r EXCEPT !.pc = "done", !.result = 500]

Respond404(r) == [r EXCEPT !.pc = "done", !.result = 404]

Respond200(r) == [r EXCEPT !.pc = "done", !.result = 200]

\* variant of PutApply without the test of taskIndex (tasks[-1] = ... adds a
\* property that JSON.stringify leaves out)
PutApply_NoCheck(r, tasks) ==
  LET taskIndex == FindIndex(tasks, r.id)
  IN Forget([r EXCEPT !.tasks = IF taskIndex = 0 THEN tasks
                                ELSE [tasks EXCEPT ![taskIndex] = Merge(@, r.body)],
                      !.pc = "wopen"])

\* PUT /api/tasks/:id after the read
PutApply(r, tasks) ==
  LET taskIndex == FindIndex(tasks, r.id)
  IN IF taskIndex = 0 THEN Respond404(r)
     ELSE Forget([r EXCEPT !.tasks = [tasks EXCEPT ![taskIndex] = Merge(@, r.body)],
                           !.pc = "wopen"])

\* DELETE /api/tasks/:id after the read
DeleteApply(r, tasks) ==
  LET filteredTasks == FilterOut(tasks, r.id)
  IN IF Len(filteredTasks) = Len(tasks) THEN Respond404(r)
     ELSE Forget([r EXCEPT !.tasks = filteredTasks, !.pc = "wopen"])

\* POST /api/tasks after the read
PostApply(r, tasks) ==
  Forget([r EXCEPT !.tasks = Append(tasks, NewTask(r.id, r.body)), !.pc = "wopen"])

\* the handler of p goes on as r; once it has responded its locals are gone
Continue(p, r) ==
  IF r.pc = "done"
  THEN /\ req' = [req EXCEPT ![p] = IdleReq]
       /\ last' = [result |-> r.result, anFailed |-> r.anFailed]
  ELSE /\ req' = [req EXCEPT ![p] = r]
       /\ UNCHANGED last

\* a request arrives at an idle handler
Arrive(p, kind, id, body) ==
  /\ req[p].pc = "idle"
  /\ req' = [q \in Procs |->
               IF q = p
               THEN [IdleReq EXCEPT !.pc = "read", !.kind = kind, !.id = id,
                                    !.body = body,
                                    !.alone = \A o \in Procs \ {p} : ~InFlight(o)]
               ELSE [req[q] EXCEPT !.alone = FALSE]]
  /\ UNCHANGED <<files, last, lastWrite>>

\* POST /api/tasks; generateUserId() is a fresh identifier
StartPost(p, bodies) ==
  /\ nextId <= MaxCreates
  /\ \E b \in bodies : Arrive(p, "POST", nextId, b)
  /\ nextId' = nextId + 1

\* the :id of a request: an identifier handed out, or one that never was
RequestIds == 1..(MaxCreates + 1)

\* PUT /api/tasks/:id
StartPut(p, bodies) ==
  /\ \E b \in bodies, id \in RequestIds : Arrive(p, "PUT", id, b)
  /\ UNCHANGED nextId

\* DELETE /api/tasks/:id
StartDelete(p) ==
  /\ \E id \in RequestIds : Arrive(p, "DELETE", id, NoBody)
  /\ UNCHANGED nextId

\* const tasks = await readUserFile(req.user.id, 'tasks.json') and the
\* synchronous code up to the next await
ReadTasks(p) ==
  /\ req[p].pc = "read"
  /\ \E fault \in Faults :
       LET r == readUserFile(files["tasks.json"], "tasks.json", fault)
       IN Continue(p, IF r.err # "none" THEN Respond500(req[p])
                      ELSE IF req[p].kind = "POST" THEN PostApply(req[p], r.data)
                      ELSE IF req[p].kind = "PUT" THEN PutApply(req[p], r.data)
                      ELSE DeleteApply(req[p], r.data))
  /\ UNCHANGED <<files, nextId, lastWrite>>

\* await writeUserFile(req.user.id, 'tasks.json', tasks): the open
WriteOpen(p) ==
  /\ req[p].pc = "wopen"
  /\ \E fault \in Faults :
       IF fault # "none"
       THEN /\ Continue(p, Respond500(req[p]))
            /\ UNCHANGED <<files, lastWrite>>
       ELSE /\ Continue(p, [req[p] EXCEPT !.pc = "wdata"])
            /\ files' = [files EXCEPT !["tasks.json"] = OpenTruncate(@)]
            /\ lastWrite' = [doc |-> <<>>, complete |-> FALSE]
  /\ UNCHANGED nextId

\* await writeUserFile(req.user.id, 'tasks.json', tasks): the bytes
WriteData(p) ==
  /\ req[p].pc = "wdata"
  /\ \E fault \in Faults :
       IF fault # "none"
       THEN /\ Continue(p, Respond500(req[p]))
            /\ UNCHANGED <<files, lastWrite>>
       ELSE /\ Continue(p, [req[p] EXCEPT !.pc = "an_read", !.tasks = <<>>])
            /\ files' = [files EXCEPT !["tasks.json"] =
                           WriteBytes(@, req[p].tasks, JsonLen(req[p].tasks))]
            /\ lastWrite' = [doc |-> req[p].tasks, complete |-> TRUE]
  /\ UNCHANGED nextId

\* ----------------------------------- task requests handled one at a time
\* bodies that carry an id of their own, besides those of the dashboard
IdPostBodies == FormBodies \cup { [title |-> "t", id |-> 1] }

IdPutBodies == ToggleBodies \cup { [id |-> 1], [id |-> 2], [title |-> ""] }

ListIds == 1..(MaxListCreates + 1)

\* the handler from its read of tasks.json to the write, with no failure of
\* the medium; calculateAnalytics does not touch tasks.json
ListHandle(kind, id, body) ==
  LET r == [IdleReq EXCEPT !.pc = "read", !.kind = kind, !.id = id, !.body = body]
      tasks == readUserFile(files["tasks.json"], "tasks.json", "none").data
      out == IF kind = "POST" THEN PostApply(r, tasks)
             ELSE IF kind = "PUT" THEN PutApply(r, tasks)
             ELSE DeleteApply(r, tasks)
  IN /\ files["tasks.json"].st \in {"missing", "ok"}
     /\ IF out.pc = "wopen"
        THEN /\ files' = [files EXCEPT !["tasks.json"] =
                            WriteBytes(OpenTruncate(@), out.tasks, JsonLen(out.tasks))]
             /\ last' = [result |-> 200, anFailed |-> FALSE]
        ELSE /\ UNCHANGED files
             /\ last' = [result |-> out.result, anFailed |-> FALSE]

ListPost ==
  /\ nextId <= MaxListCreates
  /\ \E b \in IdPostBodies : ListHandle("POST", nextId, b)
  /\ nextId' = nextId + 1
  /\ UNCHANGED <<req, lastWrite>>

ListPut ==
  /\ \E b \in IdPutBodies, id \in ListIds : ListHandle("PUT", id, b)
  /\ UNCHANGED <<req, nextId, lastWrite>>

ListDelete ==
  /\ \E id \in ListIds : ListHandle("DELETE", id, NoBody)
  /\ UNCHANGED <<req, nextId, lastWrite>>

ListNext == ListPost \/ ListPut \/ ListDelete

\* ------------------------------------------------------ calculateAnalytics
\* tasks.filter(task => task.completed)
CompletedTasks(tasks) == {i \in DOMAIN tasks : Truthy(tasks[i], "completed")}

\* completedTasks.filter(task => task.completedAt && <its day is today>)
CompletedToday(tasks) ==
  {i \in CompletedTasks(tasks) : Truthy(tasks[i], "completedAt")}

\* variant of ComputeAnalytics that counts the open tasks only
ComputeAnalytics_OpenOnly(tasks) ==
  [totalTasks |-> Len(tasks) - Cardinality(CompletedTasks(tasks)),
   completedToday |-> Cardinality(CompletedToday(tasks)),
   focusTime |-> (Cardinality(CompletedTasks(tasks)) * 30 * 10) \div 60]

\* the metrics of calculateAnalytics; every timestamp of the model is of the
\* current day and no task carries a duration (30 minutes are assumed)
ComputeAnalytics(tasks) ==
  [totalTasks |-> Len(tasks),
   completedToday |-> Cardinality(CompletedToday(tasks)),
   focusTime |-> (Cardinality(CompletedTasks(tasks)) * 30 * 10) \div 60]

\* serialized length of analytics.json: focusTime prints as "0", "0.5", "1", ...
AnalyticsLen(an) == 400 + (IF an.focusTime % 10 = 0 THEN 1 ELSE 3)

\* variant of CatchAnalyticsError in which the error reaches the route handler
CatchAnalyticsError_Rethrow(r) == Respond500([r EXCEPT !.anFailed = TRUE])

\* the catch of calculateAnalytics: log, return the defaults; the route
\* handler then goes on to res.json({ success: true, ... })
CatchAnalyticsError(r) == Respond200([r EXCEPT !.anFailed = TRUE])

\* the two reads of calculateAnalytics: tasks.json, then preferences.json
AnRead(p) ==
  /\ req[p].pc = "an_read"
  /\ \E fault \in Faults, prefsFault \in Faults :
       LET r == readUserFile(files["tasks.json"], "tasks.json", fault)
           prefs == readUserFile(files["preferences.json"], "preferences.json", prefsFault)
       IN Continue(p, IF r.err # "none" \/ prefs.err # "none"
                      THEN CatchAnalyticsError(req[p])
                      ELSE [req[p] EXCEPT !.an = ComputeAnalytics(r.data),
                                          !.pc = "an_wopen"])
  /\ UNCHANGED <<files, nextId, lastWrite>>

\* writeUserFile(userId, 'analytics.json', analytics): the open
AnWriteOpen(p) ==
  /\ req[p].pc = "an_wopen"
  /\ \E fault \in Faults :
       IF fault # "none"
       THEN /\ Continue(p, CatchAnalyticsError(req[p]))
            /\ UNCHANGED files
       ELSE /\ Continue(p, [req[p] EXCEPT !.pc = "an_wdata"])
            /\ files' = [files EXCEPT !["analytics.json"] = OpenTruncate(@)]
  /\ UNCHANGED <<nextId, lastWrite>>

\* writeUserFile(userId, 'analytics.json', analytics): the bytes, and the
\* response that follows the return of calculateAnalytics
AnWriteData(p) ==
  /\ req[p].pc = "an_wdata"
  /\ \E fault \in Faults :
       IF fault # "none"
       THEN /\ Continue(p, CatchAnalyticsError(req[p]))
            /\ UNCHANGED files
       ELSE /\ Continue(p, Respond200(req[p]))
            /\ files' = [files EXCEPT !["analytics.json"] =
                           WriteBytes(@, req[p].an, AnalyticsLen(req[p].an))]
  /\ UNCHANGED <<nextId, lastWrite>>

HandlerStep(p) ==
  \/ ReadTasks(p)
  \/ WriteOpen(p)
  \/ WriteData(p)
  \/ AnRead(p)
  \/ AnWriteOpen(p)
  \/ AnWriteData(p)

\* ------------------------------------------------- the document store
\* documents a caller may hand to writeUserFile, by file name
StoreDocs(filename) ==
  CASE filename = "tasks.json" -> { <<>>, <<NewTask(1, [title |-> "t"])>> }
    [] filename = "aichat.json" ->
         { <<>>, <<[id |-> 1, message |-> "m", response |-> "r", timestamp |-> "ts"]>> }
    [] filename = "schedule.json" ->
         { [events |-> <<"e">>, optimizedSchedule |-> <<>>, lastOptimized |-> "ts"] }
    [] filename = "preferences.json" ->
         { [workingHours |-> [start |-> "08:00", end |-> "16:00"]] }
    [] OTHER -> { ComputeAnalytics(<<NewTask(1, [title |-> "t"])>>) }

\* bytes of JSON.stringify(doc, null, 2) for a document of the file
DocLen(filename, doc) ==
  CASE filename = "tasks.json" -> JsonLen(doc)
    [] filename = "analytics.json" -> AnalyticsLen(doc)
    [] filename = "aichat.json" -> (IF doc = <<>> THEN 2 ELSE 4 + 150 * Len(doc))
    [] OTHER -> 4 + 30 * Cardinality(DOMAIN doc)

NoRead ==
  [filename |-> "none", before |-> NoFile, fault |-> "none",
   out |-> [err |-> "none", data |-> <<>>]]

NoWrite == [pc |-> "idle", filename |-> "none", doc |-> <<>>]

\* readUserFile(userId, filename)
StoreRead(filename, fault) ==
  /\ rd' = [filename |-> filename, before |-> files[filename], fault |-> fault,
            out |-> readUserFile(files[filename], filename, fault)]
  /\ UNCHANGED <<files, wr>>

\* writeUserFile(userId, filename, data): ensureUserDirectory and the open
StoreWriteOpen(filename, doc, fault) ==
  /\ wr.pc = "idle"
  /\ IF fault # "none"
     THEN UNCHANGED <<files, wr>>
     ELSE /\ files' = [files EXCEPT ![filename] = OpenTruncate(@)]
          /\ wr' = [pc |-> "wdata", filename |-> filename, doc |-> doc]
  /\ UNCHANGED rd

\* writeUserFile(userId, filename, data): the bytes
StoreWriteData(fault) ==
  /\ wr.pc = "wdata"
  /\ IF fault # "none"
     THEN UNCHANGED files
     ELSE files' = [files EXCEPT ![wr.filename] =
                      WriteBytes(@, wr.doc, DocLen(wr.filename, wr.doc))]
  /\ wr' = NoWrite
  /\ UNCHANGED rd

StoreNext ==
  \/ \E filename \in Resources, fault \in Faults : StoreRead(filename, fault)
  \/ \E filename \in Resources, fault \in Faults :
       \E doc \in StoreDocs(filename) : StoreWriteOpen(filename, doc, fault)
  \/ \E fault \in Faults : StoreWriteData(fault)

\* ------------------------------------------------------- AIChatManager
ClientDailyLimit == 10

\* two calls of sendMessage may be under way at once
Senders == {1, 2}

\* the date of a chat of the page is kept relative to the current day: it is
\* of today or of an earlier day
Today == "today"
Earlier == "earlier"

IdleSend == [pc |-> "idle", timestamp |-> "none"]

NoAttempts ==
  [attempt |-> 0, outcome |-> "none", called |-> 0, stored |-> 0, clean |-> TRUE]

\* ------------------------------------------------------ chat endpoints
ChatCap == 100

AiChatDailyLimit == 50

ChatFaults == {"none", "read", "open", "write"}

\* variant of TrimChats that keeps the oldest entries
TrimChats_KeepOldest(log) ==
  IF Len(log) > ChatCap THEN SubSeq(log, 1, ChatCap) ELSE log

\* if (chats.length > 100) chats.splice(0, chats.length - 100)
TrimChats(log) ==
  IF Len(log) > ChatCap THEN SubSeq(log, Len(log) - ChatCap + 1, Len(log)) ELSE log

NewChat(id) ==
  [id |-> id, message |-> "m", response |-> "r", timestamp |-> "ts"]

\* POST /api/ai/chats behind aiChatLimiter, handled to its response: the
\* status, and aichat.json afterwards
PostChat(f, hits, newChat, fault) ==
  IF hits + 1 > AiChatDailyLimit THEN [status |-> 429, file |-> f]
  ELSE
    LET r == readUserFile(f, "aichat.json", IF fault = "read" THEN "EACCES" ELSE "none")
        log == TrimChats(Append(r.data, newChat))
    IN IF r.err # "none" THEN [status |-> 500, file |-> f]
       ELSE IF fault = "open" THEN [status |-> 500, file |-> f]
       ELSE IF fault = "write" THEN [status |-> 500, file |-> OpenTruncate(f)]
       ELSE [status |-> 200,
             file |-> WriteBytes(OpenTruncate(f), log, DocLen("aichat.json", log))]

\* DELETE /api/ai/chats handled to its response
DeleteChats(f, fault) ==
  IF fault = "open" THEN [status |-> 500, file |-> f]
  ELSE IF fault = "write" THEN [status |-> 500, file |-> OpenTruncate(f)]
  ELSE [status |-> 200, file |-> WriteBytes(OpenTruncate(f), <<>>, 2)]

\* the server handles one POST /api/ai/chats; generateUserId() is a fresh
\* identifier, and the identifier of an entry that was not stored is seen
\* by nobody
ServePost(status, fault) ==
  LET newChat == NewChat(chatSerial)
      out == PostChat(files["aichat.json"], limiterHits, newChat, fault)
  IN /\ status = out.status
     /\ files' = [files EXCEPT !["aichat.json"] = out.file]
     /\ limiterHits' = IF limiterHits < AiChatDailyLimit + 1 THEN limiterHits + 1
                       ELSE limiterHits
     /\ chatSerial' = IF out.status = 200 THEN chatSerial + 1 ELSE chatSerial
     /\ hist' = IF out.status = 200 THEN Append(hist, newChat) ELSE hist

\* the server handles one DELETE /api/ai/chats
ServeDelete(status, fault) ==
  LET out == DeleteChats(files["aichat.json"], fault)
  IN /\ status = out.status
     /\ files' = [files EXCEPT !["aichat.json"] = out.file]
     /\ hist' = IF out.status = 200 THEN <<>> ELSE hist

\* requests sent to the chat endpoints, handled one at a time
PostChatRequest ==
  /\ chatSerial <= MaxChatPosts
  /\ \E fault \in ChatFaults, status \in {200, 429, 500} : ServePost(status, fault)
  /\ UNCHANGED <<chats, snd, clr, cstat>>

DeleteChatsRequest ==
  /\ \E fault \in ChatFaults \ {"read"}, status \in {200, 500} : ServeDelete(status, fault)
  /\ UNCHANGED <<chats, snd, clr, limiterHits, chatSerial, cstat>>

\* the 24 hour window of aiChatLimiter ends
LimiterWindowEnds ==
  /\ limiterHits > 0
  /\ limiterHits' = 0
  /\ UNCHANGED <<files, chats, snd, clr, chatSerial, hist, cstat>>

ChatServerNext ==
  \/ PostChatRequest
  \/ DeleteChatsRequest
  \/ LimiterWindowEnds

\* ------------------------------------------- AIChatManager, the operations
\* variant of isDailyLimitReached that counts every entry of the list
isDailyLimitReached_AnyDay(list) == Len(list) >= ClientDailyLimit

\* isDailyLimitReached(): the entries of this.chats stamped with today's date
isDailyLimitReached(list) ==
  Cardinality({i \in DOMAIN list : list[i].timestamp = Today}) >= ClientDailyLimit

SendInFlight(s) == snd[s].pc # "idle"

\* the attempts of the day are followed while they are made one after
\* another and none has failed; the exchanges stored are always counted
Follow(c) ==
  IF c.clean THEN c ELSE [NoAttempts EXCEPT !.clean = FALSE, !.stored = c.stored]

\* sendMessage() up to its first await: the input, the limit, buildContext
SendMessage(s) ==
  /\ snd[s].pc = "idle"
  /\ cstat.attempt < MaxSends
  /\ limiterHits + Cardinality({o \in Senders : SendInFlight(o)}) < MaxSends
  /\ IF isDailyLimitReached(chats)
     THEN /\ cstat' = Follow([cstat EXCEPT !.attempt = @ + 1, !.outcome = "rejected"])
          /\ UNCHANGED snd
     ELSE /\ cstat' = Follow([cstat EXCEPT !.attempt = @ + 1, !.outcome = "pending",
                                           !.called = @ + 1,
                                           !.clean = @ /\ \A o \in Senders : ~SendInFlight(o)])
          /\ snd' = [snd EXCEPT ![s].pc = "responder"]
  /\ UNCHANGED <<files, chats, clr, limiterHits, chatSerial, hist>>

\* sendSuggestion(question): the question is put in the input, then sendMessage()
SendSuggestion(s) == SendMessage(s)

\* AIService.generateResponse returns; chatData is stamped
ResponderReturns(s) ==
  /\ snd[s].pc = "responder"
  /\ snd' = [snd EXCEPT ![s] = [pc |-> "saving", timestamp |-> Today]]
  /\ UNCHANGED <<files, chats, clr, limiterHits, chatSerial, hist, cstat>>

\* ApiService.addAIChat: the server handles the request, and the response
\* is back in sendMessage
SaveChat(s) ==
  /\ snd[s].pc = "saving"
  /\ \E fault \in ChatFaults, status \in {200, 429, 500} :
       /\ ServePost(status, fault)
       /\ IF status = 200
          THEN /\ chats' = Append(chats, [message |-> "m", response |-> "r",
                                          timestamp |-> snd[s].timestamp])
               /\ cstat' = Follow([cstat EXCEPT !.outcome = "stored", !.stored = @ + 1])
          ELSE /\ UNCHANGED chats
               /\ cstat' = Follow([cstat EXCEPT !.clean = FALSE])
  /\ snd' = [snd EXCEPT ![s] = IdleSend]
  /\ UNCHANGED clr

\* clearChat(): the confirmation dialog is shown
ClearChat ==
  /\ clr = "idle"
  /\ clr' = "confirm"
  /\ UNCHANGED <<files, chats, snd, limiterHits, chatSerial, hist, cstat>>

\* the dialog is dismissed
ClearCancelled ==
  /\ clr = "confirm"
  /\ clr' = "idle"
  /\ UNCHANGED <<files, chats, snd, limiterHits, chatSerial, hist, cstat>>

\* the dialog is confirmed: ApiService.clearAIChats, and the response is back
ClearConfirmed ==
  /\ clr = "confirm"
  /\ \E fault \in ChatFaults \ {"read"}, status \in {200, 500} :
       /\ ServeDelete(status, fault)
       /\ chats' = IF status = 200 THEN <<>> ELSE chats
  /\ clr' = "idle"
  /\ cstat' = Follow([cstat EXCEPT !.clean = FALSE])
  /\ UNCHANGED <<snd, limiterHits, chatSerial>>

\* midnight: what was of today is of an earlier day
Age(t) == IF t = Today THEN Earlier ELSE t

NextDay ==
  /\ chats' = [i \in DOMAIN chats |-> [chats[i] EXCEPT !.timestamp = Age(@)]]
  /\ snd' = [s \in Senders |-> [snd[s] EXCEPT !.timestamp = Age(@)]]
  /\ cstat' = [NoAttempts EXCEPT !.clean = \A s \in Senders : ~SendInFlight(s)]
  /\ UNCHANGED <<files, clr, limiterHits, chatSerial, hist>>

ChatNext ==
  \/ \E s \in Senders : SendMessage(s)
  \/ \E s \in Senders : SendSuggestion(s)
  \/ \E s \in Senders : ResponderReturns(s)
  \/ \E s \in Senders : SaveChat(s)
  \/ ClearChat
  \/ ClearCancelled
  \/ ClearConfirmed
  \/ NextDay

\* ------------------------------------------------- the protected routes
\* the two users whose directories exist; files holds the documents of "U"
Users == {"U", "V"}

\* what the Authorization header may carry: nothing, a string that is no
\* token, a token past its expiry, or a token signed for a user
Tokens == {"absent", "garbage", "expired"} \cup Users

Routes ==
  { <<"GET", "/api/tasks">>, <<"POST", "/api/tasks">>, <<"PUT", "/api/tasks/:id">>,
    <<"DELETE", "/api/tasks/:id">>, <<"GET", "/api/ai/chats">>,
    <<"POST", "/api/ai/chats">>, <<"DELETE", "/api/ai/chats">>,
    <<"GET", "/api/preferences">>, <<"POST", "/api/preferences">>,
    <<"GET", "/api/schedule">>, <<"POST", "/api/schedule">>,
    <<"GET", "/api/analytics">> }

\* variant of Middleware in which GET /api/analytics is registered without
\* authenticateToken
Middleware_OpenAnalytics(route) ==
  IF route = <<"GET", "/api/analytics">> THEN <<"handler">>
  ELSE IF route = <<"POST", "/api/ai/chats">>
  THEN <<"authenticateToken", "aiChatLimiter", "handler">>
  ELSE <<"authenticateToken", "handler">>

\* the middleware registered on a route, in order, as app.get/post/put/delete
\* lists it
Middleware(route) ==
  IF route = <<"POST", "/api/ai/chats">>
  THEN <<"authenticateToken", "aiChatLimiter", "handler">>
  ELSE <<"authenticateToken", "handler">>

\* generalLimiter, mounted with app.use before the routes, lets the request
\* pass or answers 429 itself
Upstream == {"pass", "limited"}

UpstreamStatus(up) == 429

\* authenticateToken: 401 without a token or when jwt.verify fails,
\* otherwise req.user is the payload of the token; 0 stands for next()
authenticateToken(token) ==
  IF token \in Users THEN [status |-> 0, user |-> token]
  ELSE [status |-> 401, user |-> "none"]

\* the files a route handler reads, calculateAnalytics included
HandlerReads(route) ==
  CASE route[2] \in {"/api/tasks", "/api/tasks/:id"} ->
         (IF route[1] = "GET" THEN {"tasks.json"} ELSE {"tasks.json", "preferences.json"})
    [] route[2] = "/api/ai/chats" ->
         (IF route[1] = "DELETE" THEN {} ELSE {"aichat.json"})
    [] route[2] = "/api/preferences" ->
         (IF route[1] = "GET" THEN {"preferences.json"} ELSE {})
    [] route[2] = "/api/schedule" ->
         (IF route[1] = "GET" THEN {"schedule.json"} ELSE {})
    [] OTHER -> {"tasks.json", "preferences.json"}

\* the files a route handler writes, calculateAnalytics included
HandlerWrites(route) ==
  CASE route[2] \in {"/api/tasks", "/api/tasks/:id"} ->
         (IF route[1] = "GET" THEN {} ELSE {"tasks.json", "analytics.json"})
    [] route[2] = "/api/ai/chats" ->
         (IF route[1] = "GET" THEN {} ELSE {"aichat.json"})
    [] route[2] = "/api/preferences" ->
         (IF route[1] = "GET" THEN {} ELSE {"preferences.json"})
    [] route[2] = "/api/schedule" ->
         (IF route[1] = "GET" THEN {} ELSE {"schedule.json"})
    [] OTHER -> {"analytics.json"}

\* variant of UserDir in which every user id resolves to one directory
UserDir_Shared(userId) == "U"

\* ensureUserDirectory: Zyntrain/data/accounts/<userId>
UserDir(userId) == userId

NoGate ==
  [token |-> "absent", upstream |-> "pass", status |-> 0, user |-> "none",
   touched |-> {}]

\* the middleware of the route from position i on, up to the handler: the
\* status answered (0 when the handler is entered) and req.user; a request
\* within the limit of aiChatLimiter is passed on by it
RECURSIVE RunChain(_, _, _, _)
RunChain(route, token, i, user) ==
  LET m == Middleware(route)[i]
  IN IF m = "authenticateToken"
     THEN LET a == authenticateToken(token)
          IN IF a.status # 0 THEN [status |-> a.status, user |-> "none"]
             ELSE RunChain(route, token, i + 1, a.user)
     ELSE IF m = "aiChatLimiter" THEN RunChain(route, token, i + 1, user)
     ELSE [status |-> 0, user |-> user]

\* the document a handler leaves in a file it writes; which document it is
\* plays no part in who may reach it
HandlerDoc(f) ==
  IF f = "tasks.json" THEN <<NewTask(1, [title |-> "t"])>>
  ELSE IF f = "aichat.json" THEN <<NewChat(1)>>
  ELSE CHOOSE d \in StoreDocs(f) : TRUE

\* the handler of the route runs for req.user.id = user: it reads and writes
\* in the directory of that id
RunHandler(route, user) ==
  LET dir == UserDir(user)
      store == IF dir = "U" THEN files ELSE otherFiles
      after == [f \in Resources |->
                  IF f \in HandlerWrites(route)
                  THEN WriteBytes(OpenTruncate(store[f]), HandlerDoc(f),
                                  DocLen(f, HandlerDoc(f)))
                  ELSE store[f]]
  IN IF dir = "U"
     THEN files' = after /\ UNCHANGED otherFiles
     ELSE otherFiles' = after /\ UNCHANGED files

\* one request to a protected route, from app.use to the response
GateRequest ==
  \E route \in Routes, token \in Tokens, up \in Upstream :
    LET out == IF up # "pass" THEN [status |-> UpstreamStatus(up), user |-> "none"]
               ELSE RunChain(route, token, 1, "none")
    IN IF out.status = 0
       THEN /\ RunHandler(route, out.user)
            /\ gate' = [token |-> token, upstream |-> up,
                        status |-> 200, user |-> out.user,
                        touched |-> {UserDir(out.user)} \X
                                    (HandlerReads(route) \cup HandlerWrites(route))]
       ELSE /\ UNCHANGED <<files, otherFiles>>
            /\ gate' = [token |-> token, upstream |-> up,
                        status |-> out.status, user |-> "none", touched |-> {}]

\* ---------------------------------------------------- /api/preferences
\* no document: nothing saved yet, nothing returned yet
Nothing == [nothing |-> TRUE]

NoPrefs == [saved |-> Nothing, prev |-> Nothing, status |-> 0, got |-> Nothing]

\* bodies of POST /api/preferences: a full document, partial ones, {}
PrefBodies ==
  { [DefaultPreferences EXCEPT !.focusBlockLength = 90],
    [theme |-> "dark"],
    [theme |-> "light", focusBlockLength |-> 25],
    [workingHours |-> [start |-> "08:00", end |-> "16:00"], theme |-> "light"],
    [f \in {} |-> 0] }

\* variant of SavedPreferences that merges the body over what is stored
SavedPreferences_Merged(stored, body) == Merge(stored, body)

\* the document POST /api/preferences hands to writeUserFile
SavedPreferences(stored, body) == body

\* POST /api/preferences, from the request to the response
PostPreferences ==
  \E body \in PrefBodies, fault \in {"none", "open", "write"} :
    LET f == files["preferences.json"]
        stored == IF f.st = "ok" THEN f.doc ELSE DefaultPreferences
        doc == SavedPreferences(stored, body)
    IN /\ files' = [files EXCEPT !["preferences.json"] =
                      IF fault = "open" THEN f
                      ELSE IF fault = "write" THEN OpenTruncate(f)
                      ELSE WriteBytes(OpenTruncate(f), doc,
                                      DocLen("preferences.json", doc))]
       /\ pref' = IF fault = "none"
                   THEN [saved |-> body, prev |-> pref.saved, status |-> 0,
                         got |-> Nothing]
                   ELSE [pref EXCEPT !.status = 0, !.got = Nothing]

\* GET /api/preferences, from the request to the response
GetPreferences ==
  /\ \E fault \in Faults :
       LET r == readUserFile(files["preferences.json"], "preferences.json", fault)
       IN pref' = IF r.err = "none"
                   THEN [pref EXCEPT !.status = 200, !.got = r.data]
                   ELSE [pref EXCEPT !.status = 500, !.got = Nothing]
  /\ UNCHANGED files

PrefsNext == PostPreferences \/ GetPreferences

\* ---------------------------------------------------- Array.prototype.sort
\* The comparator is the matrix c of its results on the elements, by their
\* positions in the input: c[i][j] is comparefn(input[i], input[j]), with NaN
\* already taken as +0 as the sort takes it.  The result is the sequence of
\* input positions in output order.  The order is implementation-defined when
\* the comparator is not consistent, so the engine is an input.
Engines == {"V8", "SpiderMonkey"}

NoCall == [fn |-> "none"]

InsertAt(s, pos, x) == SubSeq(s, 1, pos) \o <<x>> \o SubSeq(s, pos + 1, Len(s))

Reverse(s) == [i \in 1..Len(s) |-> s[Len(s) + 1 - i]]

\* V8, CountAndMakeRun: the length of the run that starts the array, k
\* elements of it found so far
RECURSIVE CountRun(_, _, _, _)
CountRun(s, c, isDescending, k) ==
  IF k = Len(s) THEN k
  ELSE LET order == c[s[k + 1]][s[k]]
       IN IF isDescending /\ order >= 0 THEN k
          ELSE IF ~isDescending /\ order < 0 THEN k
          ELSE CountRun(s, c, isDescending, k + 1)

\* V8, BinaryInsertionSort: where pivot goes among the sorted elements
RECURSIVE BinarySearch(_, _, _, _, _)
BinarySearch(sorted, c, pivot, left, right) ==
  IF left >= right THEN left
  ELSE LET mid == left + ((right - left) \div 2)
           order == c[pivot][sorted[mid + 1]]
       IN IF order < 0 THEN BinarySearch(sorted, c, pivot, left, mid)
          ELSE BinarySearch(sorted, c, pivot, mid + 1, right)

RECURSIVE BinaryInsertionSort(_, _, _)
BinaryInsertionSort(sorted, rest, c) ==
  IF rest = <<>> THEN sorted
  ELSE LET pivot == Head(rest)
           left == BinarySearch(sorted, c, pivot, 0, Len(sorted))
       IN BinaryInsertionSort(InsertAt(sorted, left, pivot), Tail(rest), c)

\* V8 on an array shorter than 64: one run, completed by binary insertion
V8Sort(n, c) ==
  LET s == [i \in 1..n |-> i]
  IN IF n < 2 THEN s
     ELSE LET isDescending == c[s[2]][s[1]] < 0
              runLength == CountRun(s, c, isDescending, 2)
              run == IF isDescending THEN Reverse(SubSeq(s, 1, runLength))
                     ELSE SubSeq(s, 1, runLength)
          IN BinaryInsertionSort(run, SubSeq(s, runLength + 1, n), c)

\* SpiderMonkey on an array shorter than 24, InsertionSort: item moves down
\* past the elements that compare greater than it
RECURSIVE SlideDown(_, _, _, _)
SlideDown(sorted, c, item, j) ==
  IF j = 0 \/ c[sorted[j]][item] <= 0 THEN j
  ELSE SlideDown(sorted, c, item, j - 1)

RECURSIVE InsertionSort(_, _, _)
InsertionSort(sorted, rest, c) ==
  IF rest = <<>> THEN sorted
  ELSE LET item == Head(rest)
           j == SlideDown(sorted, c, item, Len(sorted))
       IN InsertionSort(InsertAt(sorted, j, item), Tail(rest), c)

ArraySort(engine, n, c) ==
  IF engine = "V8" THEN V8Sort(n, c)
  ELSE InsertionSort(<<>>, [i \in 1..n |-> i], c)

\* the array after the sort
Permuted(list, order) == [k \in 1..Len(list) |-> list[order[k]]]

\* ------------------------------------------------- TaskManager.sortTasks
\* obj[key] on an object literal: the own property, or what the key names on
\* Object.prototype (a function, for "constructor"), or undefined.  A weight
\* is its number; 0 stands for undefined and FunctionObject for the function.
FunctionObject == 0 - 1

ObjectPrototypeKeys == {"constructor"}

priorityOrder(priority) ==
  CASE priority = "urgent" -> 4
    [] priority = "high" -> 3
    [] priority = "medium" -> 2
    [] priority = "low" -> 1
    [] priority \in ObjectPrototypeKeys -> FunctionObject
    [] OTHER -> 0

\* v || 2
OrTwo(v) == IF v = 0 THEN 2 ELSE v

\* completed is "true", "false" or "absent" (undefined); deadline is a day
\* number, 0 when the task has none
SortCompleted == {"absent", "false", "true"}

SortPriorities == {"urgent", "high", "medium", "low", "someday", "constructor"}

SortDeadlines == {0, 1, 2}

SortKinds ==
  [completed : SortCompleted, priority : SortPriorities, deadline : SortDeadlines]

\* a list handed to sortTasks, from the kinds of its tasks; id is the
\* position in the list
SortList(kinds) ==
  [i \in DOMAIN kinds |-> [id |-> i, completed |-> kinds[i].completed,
                           priority |-> kinds[i].priority,
                           deadline |-> kinds[i].deadline]]

\* the comparator of sortTasks; a difference with a function is NaN, which
\* the sort takes as 0
CompareTasks(a, b) ==
  IF a.completed # b.completed THEN (IF a.completed = "true" THEN 1 ELSE 0 - 1)
  ELSE LET aPriority == OrTwo(priorityOrder(a.priority))
           bPriority == OrTwo(priorityOrder(b.priority))
       IN IF aPriority # bPriority
          THEN (IF FunctionObject \in {aPriority, bPriority} THEN 0
                ELSE bPriority - aPriority)
          ELSE IF a.deadline # 0 /\ b.deadline # 0 THEN a.deadline - b.deadline
          ELSE 0

sortTasks(tasks, engine) ==
  LET c == [i \in DOMAIN tasks |-> [j \in DOMAIN tasks |-> CompareTasks(tasks[i], tasks[j])]]
  IN Permuted(tasks, ArraySort(engine, Len(tasks), c))

\* one call of sortTasks, and a second one on its result
SortCall ==
  /\ page = NoCall
  /\ \E n \in 0..MaxSortLen, engine \in Engines :
     \E kinds \in [1..n -> SortKinds] :
       LET tasks == SortList(kinds)
           out == sortTasks(tasks, engine)
       IN page' = [fn |-> "sortTasks", engine |-> engine, input |-> tasks,
                   out |-> out, again |-> sortTasks(out, engine)]
  /\ UNCHANGED files

\* ------------------------------------------- AIService.suggestTaskReorder
\* Times are hours.  Scores are kept in halves (twice their value), so that
\* the entries 0.5 and 1.5 of energyMap are integers.
NaN == 0 - 2

CurrentTimes == {10, 20}

priorityWeights(priority) ==
  CASE priority = "urgent" -> 4
    [] priority = "high" -> 3
    [] priority = "medium" -> 2
    [] priority = "low" -> 1
    [] priority \in ObjectPrototypeKeys -> FunctionObject
    [] OTHER -> 0

\* energyMap[userEnergy]?.[task.energyRequired], in halves; 0 is undefined
energyMap(userEnergy, energyRequired) ==
  IF userEnergy \notin {"high", "medium", "low"} THEN 0
  ELSE IF energyRequired \in ObjectPrototypeKeys THEN FunctionObject
  ELSE IF energyRequired \notin {"high", "medium", "low"} THEN 0
  ELSE CASE userEnergy = "high" ->
              (CASE energyRequired = "high" -> 4
                 [] energyRequired = "medium" -> 2
                 [] energyRequired = "low" -> 1)
         [] userEnergy = "medium" ->
              (CASE energyRequired = "high" -> 3
                 [] energyRequired = "medium" -> 4
                 [] energyRequired = "low" -> 2)
         [] userEnergy = "low" ->
              (CASE energyRequired = "high" -> 1
                 [] energyRequired = "medium" -> 2
                 [] energyRequired = "low" -> 4)

\* ... || 1, in halves
getEnergyMatchScore(task, userEnergy) ==
  LET v == energyMap(userEnergy, task.energyRequired)
  IN IF v = 0 THEN 2 ELSE v

\* deadline 0 is a task without deadline
getDeadlineUrgencyScore(task, currentTime) ==
  IF task.deadline = 0 THEN 1
  ELSE LET hoursDiff == task.deadline - currentTime
       IN IF hoursDiff < 2 THEN 3
          ELSE IF hoursDiff < 24 THEN 2
          ELSE 1

\* a product with a function is NaN
calculateScore(task, currentTime, userEnergy) ==
  LET priorityScore == OrTwo(priorityWeights(task.priority))
      energyScore == getEnergyMatchScore(task, userEnergy)
      deadlineScore == getDeadlineUrgencyScore(task, currentTime)
  IN IF FunctionObject \in {priorityScore, energyScore} THEN NaN
     ELSE priorityScore * energyScore * deadlineScore

\* calculateScore(b) - calculateScore(a); a difference with NaN is NaN,
\* which the sort takes as 0
CompareScores(a, b, currentTime, userEnergy) ==
  LET sa == calculateScore(a, currentTime, userEnergy)
      sb == calculateScore(b, currentTime, userEnergy)
  IN IF NaN \in {sa, sb} THEN 0 ELSE sb - sa

\* [...tasks].sort(...): the copy is sorted, tasks stays as it is
suggestTaskReorder(tasks, currentTime, userEnergy, engine) ==
  LET c == [i \in DOMAIN tasks |-> [j \in DOMAIN tasks |->
              CompareScores(tasks[i], tasks[j], currentTime, userEnergy)]]
  IN [result |-> Permuted(tasks, ArraySort(engine, Len(tasks), c)),
      tasks |-> tasks]

UserEnergies == {"high", "medium", "low", "none"}

ReorderPriorities == SortPriorities

ReorderEnergies == {"high", "medium", "low", "absent", "constructor"}

ReorderDeadlines == {0, 5, 11, 12, 22, 34, 40}

ReorderKinds ==
  [priority : ReorderPriorities, energyRequired : ReorderEnergies,
   deadline : ReorderDeadlines]

\* the kinds that make up the longer lists
ReorderListKinds ==
  [priority : {"urgent", "low", "constructor"}, energyRequired : {"high", "absent"},
   deadline : {0, 11}]

ReorderList(kinds) ==
  [i \in DOMAIN kinds |-> [id |-> i, priority |-> kinds[i].priority,
                           energyRequired |-> kinds[i].energyRequired,
                           deadline |-> kinds[i].deadline]]

\* one call of suggestTaskReorder: on a single task of any kind, or on a
\* longer list
ReorderCall ==
  /\ page = NoCall
  /\ \E n \in 0..MaxReorderLen, engine \in Engines,
        currentTime \in CurrentTimes, userEnergy \in UserEnergies :
     \E kinds \in [1..n -> IF n <= 1 THEN ReorderKinds ELSE ReorderListKinds] :
       LET tasks == ReorderList(kinds)
           call == suggestTaskReorder(tasks, currentTime, userEnergy, engine)
       IN page' = [fn |-> "suggestTaskReorder", engine |-> engine,
                   currentTime |-> currentTime, userEnergy |-> userEnergy,
                   input |-> tasks,
                   scores |-> [i \in DOMAIN tasks |->
                                 calculateScore(tasks[i], currentTime, userEnergy)],
                   out |-> call.result, after |-> call.tasks]
  /\ UNCHANGED files

\* ------------------------------------------------- the dashboard's tasks
\* Dashboard.state.tasks and TaskManager.tasks are references to arrays of
\* task objects.  A task object is named by its id; an array is the sequence
\* of the ids of its objects; same tells whether the two references are to
\* one array.  server is the set of ids stored in tasks.json.  Every request
\* succeeds.
DashIds == 1..MaxDashTasks

DashKinds == [priority : {"urgent", "low"}, completed : BOOLEAN]

NoOptimize ==
  [phase |-> "idle", activeTasks |-> <<>>, before |-> <<>>,
   inStep |-> FALSE, others |-> FALSE]

NoFinish ==
  [valid |-> FALSE, before |-> <<>>, scored |-> <<>>, optimized |-> <<>>,
   inStep |-> FALSE, others |-> FALSE]

\* the task object as suggestTaskReorder reads it
DashTask(objs, id) ==
  [id |-> id, priority |-> objs[id].priority, energyRequired |-> "absent",
   deadline |-> 0]

\* tasks.filter(task => task.completed)
CompletedOf(tasks, objs) == SelectSeq(tasks, LAMBDA id : objs[id].completed)

\* tasks.filter(task => !task.completed)
ActiveOf(tasks, objs) == SelectSeq(tasks, LAMBDA id : ~objs[id].completed)

\* tasks.filter(t => t.id !== taskId)
WithoutTask(tasks, taskId) == SelectSeq(tasks, LAMBDA id : id # taskId)

IdsOf(tasks) == {tasks[k] : k \in DOMAIN tasks}

Dashboard == page.fn = "dashboard"

\* an operation other than the optimization has run: noted while the
\* optimization awaits, and the record of the last optimization is dropped
Noted(opt) ==
  IF opt.phase = "awaiting" THEN [opt EXCEPT !.others = TRUE] ELSE opt

\* Dashboard.loadData: both references are set to the array of the response
loadData ==
  /\ page = NoCall
  /\ \E n \in 0..(MaxDashTasks - 1) : \E kinds \in [1..n -> DashKinds] :
       page' = [fn |-> "dashboard",
                objs |-> [id \in DashIds |->
                            IF id <= n THEN kinds[id]
                            ELSE [priority |-> "low", completed |-> FALSE]],
                made |-> n,
                runs |-> 0,
                server |-> 1..n,
                state |-> [k \in 1..n |-> k],
                tm |-> [k \in 1..n |-> k],
                same |-> TRUE,
                opt |-> NoOptimize,
                fin |-> NoFinish]

\* TaskManager.handleSubmit: response.task is pushed onto TaskManager.tasks
handleSubmit ==
  /\ Dashboard
  /\ page.made < MaxDashTasks
  /\ \E priority \in {"urgent", "low"} :
       LET id == page.made + 1
       IN page' = [page EXCEPT
                     !.objs[id] = [priority |-> priority, completed |-> FALSE],
                     !.made = id,
                     !.server = @ \cup {id},
                     !.tm = Append(@, id),
                     !.state = IF page.same THEN Append(@, id) ELSE @,
                     !.opt = Noted(@),
                     !.fin = NoFinish]

\* TaskManager.toggleComplete: Object.assign on the task object found in
\* TaskManager.tasks
toggleComplete ==
  /\ Dashboard
  /\ \E id \in IdsOf(page.tm) \cap page.server :
       page' = [page EXCEPT
                  !.objs[id].completed = ~@,
                  !.opt = Noted(@),
                  !.fin = NoFinish]

\* TaskManager.deleteTask: TaskManager.tasks becomes a new, filtered array
deleteTask ==
  /\ Dashboard
  /\ \E id \in IdsOf(page.tm) \cap page.server :
       page' = [page EXCEPT
                  !.server = @ \ {id},
                  !.tm = WithoutTask(@, id),
                  !.same = FALSE,
                  !.opt = Noted(@),
                  !.fin = NoFinish]

\* Dashboard.optimizeWithAI up to the await: activeTasks is filtered from
\* Dashboard.state.tasks
optimizeWithAI_Call ==
  /\ Dashboard
  /\ page.opt.phase = "idle"
  /\ Len(page.state) # 0
  /\ page.runs < MaxOptimizations
  /\ page' = [page EXCEPT
                !.runs = @ + 1,
                !.opt = [phase |-> "awaiting",
                         activeTasks |-> ActiveOf(page.state, page.objs),
                         before |-> page.state,
                         inStep |-> page.same /\ IdsOf(page.state) = page.server,
                         others |-> FALSE],
                !.fin = NoFinish]

\* variant of TasksAfterOptimize that puts the completed tasks first
TasksAfterOptimize_CompletedFirst(optimizedTasks, tasks, objs) ==
  CompletedOf(tasks, objs) \o optimizedTasks

\* [...optimizedTasks, ...this.state.tasks.filter(task => task.completed)]
TasksAfterOptimize(optimizedTasks, tasks, objs) ==
  optimizedTasks \o CompletedOf(tasks, objs)

\* Dashboard.optimizeWithAI from the return of suggestTaskReorder on
optimizeWithAI_Return ==
  /\ Dashboard
  /\ page.opt.phase = "awaiting"
  /\ \E engine \in Engines, userEnergy \in {"high", "medium", "low"} :
       LET currentTime == CHOOSE t \in CurrentTimes : TRUE
           activeTasks == [k \in DOMAIN page.opt.activeTasks |->
                             DashTask(page.objs, page.opt.activeTasks[k])]
           call == suggestTaskReorder(activeTasks, currentTime, userEnergy, engine)
           optimizedTasks == [k \in DOMAIN call.result |-> call.result[k].id]
           tasks == TasksAfterOptimize(optimizedTasks, page.state, page.objs)
       IN page' = [page EXCEPT
                     !.state = tasks,
                     !.tm = tasks,
                     !.same = TRUE,
                     !.opt = NoOptimize,
                     !.fin = [valid |-> TRUE, before |-> page.opt.before,
                              scored |-> page.opt.activeTasks,
                              optimized |-> optimizedTasks,
                              inStep |-> page.opt.inStep,
                              others |-> page.opt.others]]

DashNext ==
  /\ \/ loadData
     \/ handleSubmit
     \/ toggleComplete
     \/ deleteTask
     \/ optimizeWithAI_Call
     \/ optimizeWithAI_Return
  /\ UNCHANGED files

\* ------------------------------------------- AIService.generateResponse
\* A string is the sequence of its characters.
UpperCase ==
  <<"A", "B", "C", "D", "E", "F", "G", "H", "I", "J", "K", "L", "M", "N", "O", "P", "Q", "R", "S", "T", "U", "V", "W", "X", "Y", "Z">>

LowerCase ==
  <<"a", "b", "c", "d", "e", "f", "g", "h", "i", "j", "k", "l", "m", "n", "o", "p", "q", "r", "s", "t", "u", "v", "w", "x", "y", "z">>

\* String.prototype.toLowerCase
toLowerCase(str) ==
  [k \in DOMAIN str |->
     IF \E i \in DOMAIN UpperCase : UpperCase[i] = str[k]
     THEN LowerCase[CHOOSE i \in DOMAIN UpperCase : UpperCase[i] = str[k]]
     ELSE str[k]]

\* String.prototype.includes
includes(str, keyword) ==
  \E at \in 0..(Len(str) - Len(keyword)) :
    \A k \in DOMAIN keyword : str[at + k] = keyword[k]

\* variant of responsePatterns with the task group ahead of the schedule group
responsePatterns_TaskFirst ==
  << [keywords |-> {<<"f", "o", "c", "u", "s">>, <<"c", "o", "n", "c", "e", "n", "t", "r", "a", "t", "e">>}, handler |-> "getFocusResponse"],
     [keywords |-> {<<"p", "r", "o", "d", "u", "c", "t", "i", "v", "i", "t", "y">>, <<"p", "r", "o", "d", "u", "c", "t", "i", "v", "e">>},
      handler |-> "getProductivityResponse"],
     [keywords |-> {<<"t", "a", "s", "k">>, <<"t", "a", "s", "k", "s">>}, handler |-> "getTasksResponse"],
     [keywords |-> {<<"s", "c", "h", "e", "d", "u", "l", "e">>, <<"c", "a", "l", "e", "n", "d", "a", "r">>}, handler |-> "getScheduleResponse"] >>

responsePatterns ==
  << [keywords |-> {<<"f", "o", "c", "u", "s">>, <<"c", "o", "n", "c", "e", "n", "t", "r", "a", "t", "e">>}, handler |-> "getFocusResponse"],
     [keywords |-> {<<"p", "r", "o", "d", "u", "c", "t", "i", "v", "i", "t", "y">>, <<"p", "r", "o", "d", "u", "c", "t", "i", "v", "e">>},
      handler |-> "getProductivityResponse"],
     [keywords |-> {<<"s", "c", "h", "e", "d", "u", "l", "e">>, <<"c", "a", "l", "e", "n", "d", "a", "r">>}, handler |-> "getScheduleResponse"],
     [keywords |-> {<<"t", "a", "s", "k">>, <<"t", "a", "s", "k", "s">>}, handler |-> "getTasksResponse"] >>

\* the handler whose response generateResponse returns
generateResponse(message) ==
  LET lowerMessage == toLowerCase(message)
      hit(i) == \E keyword \in responsePatterns[i].keywords : includes(lowerMessage, keyword)
  IN IF \E i \in DOMAIN responsePatterns : hit(i)
     THEN LET first == CHOOSE i \in DOMAIN responsePatterns :
                         hit(i) /\ \A j \in 1..(i - 1) : ~hit(j)
          IN responsePatterns[first].handler
     ELSE "getDefaultResponse"

MessageWords ==
  {<<"f", "o", "c", "u", "s">>,
   <<"C", "o", "n", "c", "e", "n", "t", "r", "a", "t", "e">>,
   <<"p", "r", "o", "d", "u", "c", "t", "i", "v", "i", "t", "y">>,
   <<"P", "r", "o", "d", "u", "c", "t", "i", "v", "e">>,
   <<"s", "c", "h", "e", "d", "u", "l", "e">>,
   <<"S", "C", "H", "E", "D", "U", "L", "E">>,
   <<"c", "a", "l", "e", "n", "d", "a", "r">>,
   <<"t", "a", "s", "k">>,
   <<"T", "a", "s", "k", "s">>,
   <<"m", "u", "l", "t", "i", "t", "a", "s", "k", "i", "n", "g">>,
   <<"h", "e", "l", "l", "o">>}

\* the words of a message with a space between them
RECURSIVE JoinWords(_)
JoinWords(ws) ==
  IF ws = <<>> THEN <<>>
  ELSE IF Len(ws) = 1 THEN ws[1]
  ELSE ws[1] \o <<" ">> \o JoinWords(Tail(ws))

\* one call of generateResponse
GenerateCall ==
  /\ page = NoCall
  /\ \E n \in 0..MaxWords : \E ws \in [1..n -> MessageWords] :
       LET message == JoinWords(ws)
       IN page' = [fn |-> "generateResponse", message |-> message,
                   out |-> generateResponse(message)]
  /\ UNCHANGED files

\* ------------------------------------------------------------ /api/auth
\* One account is registered, with email "U"; "nobody" is an email without
\* account.  The profile document is kept by what matters of its fields;
\* a 2FA code is the number of the login that made it, and expired tells
\* whether its ten minutes have passed.
NoAuth == [up |-> FALSE]

Serving == auth.up

Emails == {"U", "nobody"}

MailOutcomes == {"sent", "failed"}

VerifyProcs == {1, 2}

IdleVerify == [phase |-> "idle"]

PublicFields == {"id", "name", "email", "createdAt"}

\* the keys of the profile document
ProfileFields(profile) ==
  {"id", "firstName", "lastName", "name", "email", "password", "createdAt", "settings"}
  \cup (IF profile.lastLogin THEN {"lastLogin"} ELSE {})
  \cup (IF profile.twoFactorSet THEN {"twoFactorEnabled"} ELSE {})
  \cup (IF profile.pendingTwoFactor # Nothing THEN {"pendingTwoFactor"} ELSE {})
  \cup (IF profile.passwordReset THEN {"passwordReset"} ELSE {})
  \cup (IF profile.googleCalendarTokens THEN {"googleCalendarTokens"} ELSE {})

\* res.json / res.status(...).json: the status, whether the body carries a
\* token, the keys of the user object in it, and its message
Reply(route, status, token, fields, message) ==
  [route |-> route, status |-> status, token |-> token,
   twoFactor |-> auth.profile.twoFactorEnabled, fields |-> fields,
   message |-> message]

\* the server starts, with or without a working mail transport, and the
\* account is registered
Register ==
  /\ auth = NoAuth
  /\ \E emailTransporter \in BOOLEAN :
       auth' = [up |-> TRUE, emailTransporter |-> emailTransporter,
                profile |-> [twoFactorEnabled |-> FALSE, twoFactorSet |-> FALSE,
                             lastLogin |-> FALSE,
                             pendingTwoFactor |-> Nothing, passwordReset |-> FALSE,
                             googleCalendarTokens |-> FALSE],
                made |-> 0,
                vr |-> [p \in VerifyProcs |-> IdleVerify],
                tokensFor |-> [c \in 1..(MaxLogins + 1) |-> 0],
                seenRegistered |-> {}, seenUnknown |-> {},
                last |-> [route |-> "register", status |-> 200, token |-> TRUE,
                          twoFactor |-> FALSE, fields |-> PublicFields,
                          message |-> "none"]]

\* POST /api/auth/enable-2fa and /api/auth/disable-2fa
SetTwoFactor ==
  /\ Serving
  /\ \E on \in BOOLEAN :
       auth' = [auth EXCEPT
                  !.profile.twoFactorEnabled = on,
                  !.profile.twoFactorSet = TRUE,
                  !.profile.pendingTwoFactor = IF on THEN @ ELSE Nothing,
                  !.last = [Reply("2fa", 200, FALSE, {}, "none") EXCEPT !.twoFactor = on]]

\* GET /api/calendar/callback stores the tokens of Google Calendar
StoreGoogleTokens ==
  /\ Serving
  /\ ~auth.profile.googleCalendarTokens
  /\ auth' = [auth EXCEPT !.profile.googleCalendarTokens = TRUE,
                           !.last = Reply("calendar-callback", 302, FALSE, {}, "none")]

\* userProfile.twoFactorEnabled && emailTransporter
TwoFactorAsked(profile, emailTransporter) ==
  profile.twoFactorEnabled /\ emailTransporter

\* POST /api/auth/login
Login ==
  /\ Serving
  /\ \E email \in Emails, passwordMatches \in BOOLEAN, mail \in MailOutcomes :
       IF email # "U" \/ ~passwordMatches
       THEN auth' = [auth EXCEPT !.last = Reply("login", 401, FALSE, {}, "none")]
       ELSE IF TwoFactorAsked(auth.profile, auth.emailTransporter)
       THEN /\ auth.made < MaxLogins
            /\ LET twoFactorCode == auth.made + 1
                    pending == [code |-> twoFactorCode, expired |-> FALSE]
               IN auth' = [auth EXCEPT
                             !.made = twoFactorCode,
                             !.profile.lastLogin = TRUE,
                             !.profile.pendingTwoFactor = pending,
                             !.last = IF mail = "sent"
                                      THEN Reply("login", 200, FALSE, {}, "requires2FA")
                                      ELSE Reply("login", 200, TRUE, PublicFields, "none")]
       ELSE auth' = [auth EXCEPT
                       !.profile.lastLogin = TRUE,
                       !.last = Reply("login", 200, TRUE, PublicFields, "none")]

\* ten minutes pass after the pending code was made
CodeExpires ==
  /\ Serving
  /\ auth.profile.pendingTwoFactor # Nothing
  /\ ~auth.profile.pendingTwoFactor.expired
  /\ auth' = [auth EXCEPT !.profile.pendingTwoFactor.expired = TRUE]

\* POST /api/auth/verify-login-2fa up to the await of writeUserFile: the
\* profile is read and the code is tested against it
VerifyRead(p) ==
  /\ Serving
  /\ auth.vr[p] = IdleVerify
  /\ \E code \in 1..(MaxLogins + 1) :
       LET userProfile == auth.profile
       IN IF userProfile.pendingTwoFactor = Nothing
          THEN auth' = [auth EXCEPT !.last = Reply("verify-login-2fa", 400, FALSE, {}, "none")]
          ELSE IF userProfile.pendingTwoFactor.expired
          THEN auth' = [auth EXCEPT
                          !.profile.pendingTwoFactor = Nothing,
                          !.last = Reply("verify-login-2fa", 400, FALSE, {}, "expired")]
          ELSE IF code # userProfile.pendingTwoFactor.code
          THEN auth' = [auth EXCEPT !.last = Reply("verify-login-2fa", 400, FALSE, {}, "invalid")]
          ELSE auth' = [auth EXCEPT
                          !.vr[p] = [phase |-> "writing", code |-> code,
                                     userProfile |-> [userProfile EXCEPT
                                                        !.pendingTwoFactor = Nothing,
                                                        !.lastLogin = TRUE]]]

\* ... and from there on: the profile is written and the token is signed
VerifyWrite(p) ==
  /\ Serving
  /\ auth.vr[p] # IdleVerify
  /\ auth' = [auth EXCEPT
                !.profile = auth.vr[p].userProfile,
                !.tokensFor[auth.vr[p].code] = @ + 1,
                !.vr[p] = IdleVerify,
                !.last = [route |-> "verify-login-2fa", status |-> 200, token |-> TRUE,
                          twoFactor |-> auth.vr[p].userProfile.twoFactorEnabled,
                          fields |-> PublicFields, message |-> "none"]]

\* POST /api/auth/forgot-password with an email in the body
ForgotPassword ==
  /\ Serving
  /\ \E email \in Emails, mail \in MailOutcomes :
       LET registered == email = "U"
           reply ==
             IF ~auth.emailTransporter
             THEN Reply("forgot-password", 503, FALSE, {}, "Email service not available")
             ELSE IF ~registered
             THEN Reply("forgot-password", 200, FALSE, {}, "If an account with that email exists")
             ELSE IF mail = "sent"
             THEN Reply("forgot-password", 200, FALSE, {}, "If an account with that email exists")
             ELSE Reply("forgot-password", 500, FALSE, {}, "Failed to process password reset request")
       IN auth' = [auth EXCEPT
                     !.profile.passwordReset =
                       IF auth.emailTransporter /\ registered THEN TRUE ELSE @,
                     !.seenRegistered = IF registered THEN @ \cup {reply} ELSE @,
                     !.seenUnknown = IF registered THEN @ ELSE @ \cup {reply},
                     !.last = reply]

\* GET /api/auth/verify
AuthVerify ==
  /\ Serving
  /\ auth' = [auth EXCEPT
                !.last = Reply("verify", 200, FALSE, PublicFields \cup {"settings"}, "none")]

\* PUT /api/user/update: the body of the response is the merged profile
UpdateUser ==
  /\ Serving
  /\ auth' = [auth EXCEPT
                !.last = Reply("user-update", 200, FALSE, ProfileFields(auth.profile), "none")]

AuthNext ==
  /\ \/ Register
     \/ SetTwoFactor
     \/ StoreGoogleTokens
     \/ Login
     \/ CodeExpires
     \/ \E p \in VerifyProcs : VerifyRead(p)
     \/ \E p \in VerifyProcs : VerifyWrite(p)
     \/ ForgotPassword
     \/ AuthVerify
     \/ UpdateUser
  /\ UNCHANGED files

\* ------------------------------------------------- the onboarding wizard
\* The step elements of createAllSteps are step-0 .. step-5 and
\* step-completion, named here 0 .. 5 and CompletionStep.  What the user
\* has put into the form of a step is "a" or "b", or "" when the form does
\* not pass its validation.
totalSteps == 5

CompletionStep == 6

FormInputs == {"", "a", "b"}

SurveyFields ==
  {"workingHours", "energyPeaks", "focusBlockLength", "taskCategories", "notifications"}

Onboarding == page.fn = "onboarding"

\* the survey is opened: showStep(0)
startOnboarding ==
  /\ page = NoCall
  /\ page' = [fn |-> "onboarding", currentStep |-> 0, shown |-> {0},
              validated |-> {}, collected |-> {},
              surveyData |-> [f \in SurveyFields |-> "undefined"],
              finished |-> FALSE, preferences |-> {}]
  /\ UNCHANGED files

\* the element showStep makes active
StepElement(stepIndex) ==
  IF stepIndex = totalSteps THEN CompletionStep ELSE stepIndex

\* OnboardingValidators.validateStep
validateStep(stepIndex, input) ==
  IF stepIndex \in 1..4 THEN input # "" ELSE TRUE

\* the field the collector of the step fills
CollectedField(stepIndex) ==
  CASE stepIndex = 1 -> "workingHours"
    [] stepIndex = 2 -> "energyPeaks"
    [] stepIndex = 3 -> "focusBlockLength"
    [] stepIndex = 4 -> "taskCategories"
    [] stepIndex = 5 -> "notifications"

\* the fields of buildPreferences that are not undefined, and so are sent
buildPreferences(surveyData) ==
  {f \in SurveyFields : surveyData[f] # "undefined"}
  \cup {"goals", "onboardingCompleted", "onboardingCompletedAt"}

\* OnboardingSurvey.nextStep, finishOnboarding included
nextStep ==
  /\ Onboarding
  /\ ~page.finished
  /\ \E input \in FormInputs :
       IF page.currentStep = totalSteps
       THEN page' = [page EXCEPT !.finished = TRUE,
                                 !.preferences = buildPreferences(page.surveyData)]
       ELSE /\ validateStep(page.currentStep, input)
            /\ LET step == page.currentStep
                   stepIndex == step + 1
                   data == IF step \in 1..5
                           THEN [page.surveyData EXCEPT ![CollectedField(step)] = input]
                           ELSE page.surveyData
              IN page' = [page EXCEPT
                            !.validated = @ \cup {step},
                            !.collected = IF step \in 1..5 THEN @ \cup {step} ELSE @,
                            !.surveyData = data,
                            !.shown = @ \cup {StepElement(stepIndex)},
                            !.currentStep = stepIndex]
  /\ UNCHANGED files

\* OnboardingSurvey.previousStep
previousStep ==
  /\ Onboarding
  /\ ~page.finished
  /\ page.currentStep > 0
  /\ page' = [page EXCEPT
                !.shown = @ \cup {StepElement(page.currentStep - 1)},
                !.currentStep = @ - 1]
  /\ UNCHANGED files

OnboardNext ==
  \/ startOnboarding
  \/ nextStep
  \/ previousStep

\* ---------------------------------------------------------- specifications
Init ==
  /\ files = [f \in Resources |-> NoFile]
  /\ req = [p \in Procs |-> IdleReq]
  /\ nextId = 1
  /\ last = NoResponse
  /\ lastWrite = [doc |-> <<>>, complete |-> FALSE]
  /\ rd = NoRead
  /\ wr = NoWrite
  /\ chats = <<>>
  /\ snd = [s \in Senders |-> IdleSend]
  /\ clr = "idle"
  /\ limiterHits = 0
  /\ chatSerial = 1
  /\ hist = <<>>
  /\ cstat = NoAttempts
  /\ otherFiles = [f \in Resources |-> NoFile]
  /\ gate = NoGate
  /\ pref = NoPrefs
  /\ page = NoCall
  /\ auth = NoAuth

vars ==
  <<files, req, nextId, last, lastWrite, rd, wr,
    chats, snd, clr, limiterHits, chatSerial, hist, cstat, otherFiles, gate,
    pref, page, auth>>

\* requests of the dashboard, handled concurrently
TaskNext ==
  \E p \in Procs :
    \/ StartPost(p, FormBodies)
    \/ StartPut(p, ToggleBodies)
    \/ StartDelete(p)
    \/ HandlerStep(p)

Next == TaskNext /\ UNCHANGED storeVars /\ UNCHANGED chatVars /\ UNCHANGED laterVars

Spec == Init /\ [][Next]_vars

\* requests with any body, handled one at a time
TaskSeqNext ==
  \/ StartPost(1, AnyPostBodies)
  \/ StartPut(1, AnyPutBodies)
  \/ StartDelete(1)
  \/ HandlerStep(1)

SeqNext == TaskSeqNext /\ UNCHANGED storeVars /\ UNCHANGED chatVars /\ UNCHANGED laterVars

SeqSpec == Init /\ [][SeqNext]_vars

\* the calls of readUserFile and writeUserFile on every document of the user
StoreOnlyNext == StoreNext /\ UNCHANGED taskVarsButFiles /\ UNCHANGED chatVars /\ UNCHANGED laterVars

\* any client of the chat endpoints, its requests handled one at a time
ChatServerOnlyNext ==
  ChatServerNext /\ UNCHANGED taskVarsButFiles /\ UNCHANGED storeVars /\ UNCHANGED laterVars

ChatServerSpec == Init /\ [][ChatServerOnlyNext]_vars

\* the assistant page of the dashboard and the server behind it
ChatOnlyNext == ChatNext /\ UNCHANGED taskVarsButFiles /\ UNCHANGED storeVars /\ UNCHANGED laterVars

ChatSpec == Init /\ [][ChatOnlyNext]_vars

StoreSpec == Init /\ [][StoreOnlyNext]_vars

\* task requests of any client, with ids in their bodies, one at a time
ListOnlyNext == ListNext /\ UNCHANGED storeVars /\ UNCHANGED chatVars /\ UNCHANGED laterVars

ListSpec == Init /\ [][ListOnlyNext]_vars

\* requests of two users and of callers without a token, one at a time
GateOnlyNext ==
  /\ GateRequest
  /\ UNCHANGED taskVarsButFiles /\ UNCHANGED storeVars /\ UNCHANGED chatVars
  /\ UNCHANGED prefsVars /\ UNCHANGED pageVars /\ UNCHANGED authVars

GateSpec == Init /\ [][GateOnlyNext]_vars

\* the preferences of one user, saved and fetched, one request at a time
PrefsOnlyNext ==
  /\ PrefsNext
  /\ UNCHANGED taskVarsButFiles /\ UNCHANGED storeVars /\ UNCHANGED chatVars
  /\ UNCHANGED gateVars /\ UNCHANGED pageVars /\ UNCHANGED authVars

PrefsSpec == Init /\ [][PrefsOnlyNext]_vars

\* the task list of the dashboard is sorted
SortOnlyNext ==
  /\ SortCall
  /\ UNCHANGED taskVarsButFiles /\ UNCHANGED storeVars /\ UNCHANGED chatVars
  /\ UNCHANGED gateVars /\ UNCHANGED prefsVars /\ UNCHANGED authVars

SortSpec == Init /\ [][SortOnlyNext]_vars

\* calls of AIService.suggestTaskReorder
ReorderOnlyNext ==
  /\ ReorderCall
  /\ UNCHANGED taskVarsButFiles /\ UNCHANGED storeVars /\ UNCHANGED chatVars
  /\ UNCHANGED gateVars /\ UNCHANGED prefsVars /\ UNCHANGED authVars

ReorderSpec == Init /\ [][ReorderOnlyNext]_vars

\* the task list of the dashboard, every request answered with success
DashOnlyNext ==
  /\ DashNext
  /\ UNCHANGED taskVarsButFiles /\ UNCHANGED storeVars /\ UNCHANGED chatVars
  /\ UNCHANGED gateVars /\ UNCHANGED prefsVars /\ UNCHANGED authVars

DashSpec == Init /\ [][DashOnlyNext]_vars

\* calls of AIService.generateResponse
GenerateOnlyNext ==
  /\ GenerateCall
  /\ UNCHANGED taskVarsButFiles /\ UNCHANGED storeVars /\ UNCHANGED chatVars
  /\ UNCHANGED gateVars /\ UNCHANGED prefsVars /\ UNCHANGED authVars

GenerateSpec == Init /\ [][GenerateOnlyNext]_vars

\* requests to /api/auth and /api/user of any client
AuthOnlyNext ==
  /\ AuthNext
  /\ UNCHANGED taskVarsButFiles /\ UNCHANGED storeVars /\ UNCHANGED chatVars
  /\ UNCHANGED gateVars /\ UNCHANGED prefsVars /\ UNCHANGED pageVars

AuthSpec == Init /\ [][AuthOnlyNext]_vars

\* the onboarding wizard, from its first step to finishOnboarding
OnboardOnlyNext ==
  /\ OnboardNext
  /\ UNCHANGED taskVarsButFiles /\ UNCHANGED storeVars /\ UNCHANGED chatVars
  /\ UNCHANGED gateVars /\ UNCHANGED prefsVars /\ UNCHANGED authVars

OnboardSpec == Init /\ [][OnboardOnlyNext]_vars

\* ------------------------------------------------------------ properties
TasksFile == files["tasks.json"]

AnalyticsFile == files["analytics.json"]

\* the task list a GET /api/tasks would return, when it can be read
PersistedTasks == readUserFile(TasksFile, "tasks.json", "none")

PersistedAnalytics == readUserFile(AnalyticsFile, "analytics.json", "none")

Responding(p) == req[p].pc # "idle" /\ req'[p].pc = "idle"

\* C1: after any sequence of task create and update requests, every
\* persisted task has a non-null completedAt exactly when completed is true
C1_CompletedAtIffCompleted ==
  PersistedTasks.err = "none" =>
    \A i \in DOMAIN PersistedTasks.data :
      LET task == PersistedTasks.data[i]
      IN Truthy(task, "completedAt") <=> Truthy(task, "completed")

\* C2: once the overlapping requests have responded, tasks.json is exactly
\* the document of the request that wrote last
C2_LastWriterWins ==
  (Quiescent /\ lastWrite.complete) =>
    (TasksFile.st = "ok" /\ TasksFile.doc = lastWrite.doc)

\* C7: whenever no request is in flight, the persisted analytics document
\* counts the tasks of the persisted task list
C7_AnalyticsDerived ==
  (Quiescent /\ PersistedTasks.err = "none" /\ PersistedAnalytics.err = "none") =>
    PersistedAnalytics.data.totalTasks = Len(PersistedTasks.data)

\* C7 as amended: a task request that ran with no other request in flight
\* and whose recomputation did not fail leaves analytics.json counting the
\* tasks of tasks.json
C7_AnalyticsDerivedWhenAlone ==
  [][\A p \in Procs :
       (Responding(p) /\ req[p].pc = "an_wdata" /\ req[p].alone /\ ~last'.anFailed) =>
         /\ TasksFile'.st = "ok"
         /\ AnalyticsFile'.st = "ok"
         /\ AnalyticsFile'.doc.totalTasks = Len(TasksFile'.doc)]_vars

C7_Witness ==
  /\ Quiescent
  /\ last.result = 200 /\ ~last.anFailed
  /\ AnalyticsFile.st = "ok" /\ AnalyticsFile.doc.totalTasks = 1
  /\ TasksFile.st = "ok" /\ Len(TasksFile.doc) = 1

\* C8: when the recomputation fails after tasks.json was written, the
\* request answers success and the failing step leaves tasks.json as it is
C8_AnalyticsFailureNotFatal ==
  [][\A p \in Procs :
       (Responding(p) /\ req[p].pc \in {"an_read", "an_wopen", "an_wdata"}
          /\ last'.anFailed) =>
         (last'.result = 200 /\ TasksFile' = TasksFile)]_vars

C8_Witness ==
  /\ last.anFailed /\ last.result = 200
  /\ Quiescent
  /\ TasksFile.st = "ok" /\ Len(TasksFile.doc) = 1
  /\ AnalyticsFile.st = "missing"

\* C9: an update or delete whose id matches no task of the list it read
\* answers 404 (500 when the read itself failed) and ends there: nothing is
\* written and nothing recomputed
C9_NotFoundWritesNothing ==
  [][\A p \in Procs :
       (/\ req[p].pc = "read" /\ req'[p].pc # "read"
        /\ req[p].kind \in {"PUT", "DELETE"}
        /\ PersistedTasks.err = "none"
        /\ FindIndex(PersistedTasks.data, req[p].id) = 0) =>
         (/\ req'[p].pc = "idle"
          /\ last'.result \in {404, 500}
          /\ files' = files)]_vars

C9_Witness ==
  /\ last.result = 404
  /\ Quiescent
  /\ TasksFile.st = "ok" /\ Len(TasksFile.doc) = 1
  /\ AnalyticsFile.st = "ok" /\ AnalyticsFile.doc.totalTasks = 1

\* C10: every persisted task has a non-empty title
C10_TitleRequired ==
  PersistedTasks.err = "none" =>
    \A i \in DOMAIN PersistedTasks.data : TitleValid(PersistedTasks.data[i])

\* C6: readUserFile gives the default document of the resource when the
\* file is missing, and raises every other failure of the read
C6_DefaultOnMissingOnly ==
  rd.filename # "none" =>
    /\ (rd.fault = "none" /\ rd.before.st = "missing") =>
         /\ rd.out.err = "none"
         /\ rd.filename \in {"tasks.json", "aichat.json"} => rd.out.data = <<>>
         /\ rd.filename = "analytics.json" =>
              rd.out.data = [totalTasks |-> 0, completedToday |-> 0, focusTime |-> 0]
         /\ rd.filename = "schedule.json" =>
              rd.out.data = [events |-> <<>>, optimizedSchedule |-> <<>>,
                             lastOptimized |-> "null"]
         /\ rd.filename = "preferences.json" => rd.out.data = DefaultPreferences
    /\ (rd.fault # "none" \/ rd.before.st \in {"empty", "corrupt"}) =>
         rd.out.err \notin {"none", "ENOENT"}
    /\ (rd.fault = "none" /\ rd.before.st = "ok") =>
         (rd.out.err = "none" /\ rd.out.data = rd.before.doc)

C6_Witness ==
  /\ rd.filename = "preferences.json"
  /\ rd.before.st = "missing" /\ rd.fault = "none"
  /\ rd.out.data = DefaultPreferences
  /\ files["tasks.json"].st = "ok"

\* C5: the persisted chat log is the most recent 100 of the entries stored
\* since the last clear, in the order they were stored
C5_ChatLogCapped ==
  files["aichat.json"].st = "ok" =>
    /\ Len(files["aichat.json"].doc) <= 100
    /\ LET n == Len(hist)
           keep == IF n > 100 THEN 100 ELSE n
       IN files["aichat.json"].doc = SubSeq(hist, n - keep + 1, n)

C5_Witness ==
  /\ files["aichat.json"].st = "ok"
  /\ Len(files["aichat.json"].doc) = 100
  /\ Len(hist) = 101
  /\ files["aichat.json"].doc[1] = hist[2]

\* C3: with the attempts of a day made one after another and none of them
\* failing, the first ten call the responder and are stored, and every
\* later one is rejected with no call of the responder and nothing stored
C3_TenthSucceedsEleventhRejected ==
  cstat.clean =>
    /\ cstat.called = (IF cstat.attempt < 10 THEN cstat.attempt ELSE 10)
    /\ (cstat.attempt > 10) <=> (cstat.outcome = "rejected")
    /\ cstat.stored = cstat.called - (IF cstat.outcome = "pending" THEN 1 ELSE 0)

C3_Witness ==
  /\ cstat.clean
  /\ cstat.attempt = 11 /\ cstat.outcome = "rejected"
  /\ cstat.called = 10 /\ cstat.stored = 10
  /\ Len(chats) = 10

\* C4: at most 10 chat exchanges are generated and stored for the user in
\* one calendar day
C4_AtMostTenPerDay == cstat.stored <= 10

\* C11: the tasks of the persisted list have pairwise distinct ids
C11_DistinctIds ==
  PersistedTasks.err = "none" =>
    \A i, j \in DOMAIN PersistedTasks.data :
      i # j => PersistedTasks.data[i].id # PersistedTasks.data[j].id

\* C12: a request without a valid token that reaches a task, chat,
\* preferences, schedule or analytics route is answered 401, and no document
\* of any user is read, created or written for it
C12_NoTokenNoAccess ==
  [][(gate'.token \notin Users /\ gate'.upstream = "pass") =>
       /\ gate'.status = 401
       /\ gate'.touched = {}
       /\ files' = files /\ otherFiles' = otherFiles]_vars

C12_Witness ==
  /\ gate.token = "expired" /\ gate.upstream = "pass"
  /\ gate.status = 401
  /\ files["tasks.json"].st = "ok" /\ otherFiles["preferences.json"].st = "ok"

\* C13: a request authenticated as one user reads and writes in the
\* directory of that user only; the documents of the other user stay as
\* they are
C13_OwnDocumentsOnly ==
  [][\A u \in Users :
       gate'.user = u =>
         /\ \A t \in gate'.touched : t[1] = u
         /\ u = "U" => otherFiles' = otherFiles
         /\ u = "V" => files' = files]_vars

C13_Witness ==
  /\ gate.user = "V" /\ gate.status = 200
  /\ <<"V", "tasks.json">> \in gate.touched
  /\ otherFiles["tasks.json"].st = "ok" /\ otherFiles["preferences.json"].st = "missing"
  /\ files["tasks.json"].st = "missing" /\ files["preferences.json"].st = "ok"

\* C14: a GET /api/preferences that succeeds returns exactly the document
\* of the latest successful POST, with nothing of the document before it or
\* of the defaults, and the hard-coded defaults when nothing was saved yet
C14_PreferencesOverwritten ==
  pref.status = 200 =>
    pref.got = (IF pref.saved = Nothing THEN DefaultPreferences ELSE pref.saved)

C14_Witness ==
  /\ pref.status = 200
  /\ pref.prev = [DefaultPreferences EXCEPT !.focusBlockLength = 90]
  /\ pref.saved = [theme |-> "dark"]
  /\ pref.got = [theme |-> "dark"]

Sorted == page.fn = "sortTasks"

\* C15: a read that meets no failure of the medium returns a document, also
\* while a write of the same file is under way
C15_AtomicWrite ==
  (rd.filename # "none" /\ rd.fault = "none") => rd.out.err = "none"

\* C16: sorting the sorted list again gives the same order
C16_SortIdempotent == Sorted => page.again = page.out

\* the weight the ranking comparator gives a priority
RankWeight(priority) ==
  CASE priority = "urgent" -> 4
    [] priority = "high" -> 3
    [] priority = "low" -> 1
    [] OTHER -> 2

Incomplete(task) == task.completed # "true"

\* C17: in the sorted list no completed task precedes an incomplete one,
\* and of two tasks of equal completion status the one that comes first
\* has the higher or the same priority weight; [A low, B urgent,
\* C medium completed] sorts to [B, A, C]
C17_CompletedLastThenPriority ==
  Sorted =>
    /\ \A i, j \in DOMAIN page.out :
         i < j =>
           /\ ~(~Incomplete(page.out[i]) /\ Incomplete(page.out[j]))
           /\ Incomplete(page.out[i]) = Incomplete(page.out[j]) =>
                RankWeight(page.out[i].priority) >= RankWeight(page.out[j].priority)
    /\ page.input = SortList(<<[completed |-> "absent", priority |-> "low", deadline |-> 0],
                               [completed |-> "absent", priority |-> "urgent", deadline |-> 0],
                               [completed |-> "true", priority |-> "medium", deadline |-> 0]>>)
         => <<page.out[1].id, page.out[2].id, page.out[3].id>> = <<2, 1, 3>>

\* every task of the list has a boolean completed and a priority that is
\* one of the four names or a word that names nothing
PlainList(list) ==
  \A i \in DOMAIN list :
    list[i].completed # "absent" /\ list[i].priority \notin ObjectPrototypeKeys

\* C18: of two tasks of the sorted list with the same completion status and
\* priority weight that both have a deadline, the earlier deadline comes
\* first; tasks without a deadline of the same status and weight keep their
\* original relative order (stated here for lists of tasks with a boolean
\* completed and an ordinary priority)
C18_DeadlineOrder ==
  (Sorted /\ PlainList(page.input)) =>
    \A i, j \in DOMAIN page.out :
      (/\ i < j
       /\ Incomplete(page.out[i]) = Incomplete(page.out[j])
       /\ RankWeight(page.out[i].priority) = RankWeight(page.out[j].priority)) =>
        /\ (page.out[i].deadline # 0 /\ page.out[j].deadline # 0) =>
             page.out[i].deadline <= page.out[j].deadline
        /\ (page.out[i].deadline = 0 /\ page.out[j].deadline = 0) =>
             page.out[i].id < page.out[j].id

Reordered == page.fn = "suggestTaskReorder"

\* the three factors as the scoring rules give them, in halves where the
\* model keeps halves
WeightOf(priority) ==
  CASE priority = "urgent" -> 4
    [] priority = "high" -> 3
    [] priority = "low" -> 1
    [] OTHER -> 2

MatchOf(userEnergy, energyRequired) ==
  CASE userEnergy = "high" /\ energyRequired = "high" -> 4
    [] userEnergy = "high" /\ energyRequired = "medium" -> 2
    [] userEnergy = "high" /\ energyRequired = "low" -> 1
    [] userEnergy = "medium" /\ energyRequired = "high" -> 3
    [] userEnergy = "medium" /\ energyRequired = "medium" -> 4
    [] userEnergy = "medium" /\ energyRequired = "low" -> 2
    [] userEnergy = "low" /\ energyRequired = "high" -> 1
    [] userEnergy = "low" /\ energyRequired = "medium" -> 2
    [] userEnergy = "low" /\ energyRequired = "low" -> 4
    [] OTHER -> 2

UrgencyOf(deadline, currentTime) ==
  IF deadline = 0 THEN 1
  ELSE IF deadline - currentTime < 2 THEN 3
  ELSE IF deadline - currentTime < 24 THEN 2
  ELSE 1

\* C19: the score of every task handed to suggestTaskReorder is priority
\* weight x energy match x deadline urgency, with weight 2 for a missing or
\* unknown priority and match 1 for a missing or unknown energy level
C19_ScoreFormula ==
  Reordered =>
    \A i \in DOMAIN page.input :
      page.scores[i] =
        WeightOf(page.input[i].priority)
        * MatchOf(page.userEnergy, page.input[i].energyRequired)
        * UrgencyOf(page.input[i].deadline, page.currentTime)

\* C20: the result of suggestTaskReorder is a permutation of its input by
\* non-increasing score, tasks of equal score in their original order, and
\* the list handed in is as it was
C20_StableDescending ==
  Reordered =>
    /\ Len(page.out) = Len(page.input)
    /\ \A i \in DOMAIN page.input : \E k \in DOMAIN page.out : page.out[k] = page.input[i]
    /\ \A i, j \in DOMAIN page.out :
         i < j =>
           LET si == page.scores[page.out[i].id]
               sj == page.scores[page.out[j].id]
           IN /\ (si # NaN /\ sj # NaN) => si >= sj
              /\ si = sj => page.out[i].id < page.out[j].id
    /\ page.after = page.input

\* x >= y on scores; every comparison with NaN is false
ScoreAtLeast(x, y) == x # NaN /\ y # NaN /\ x >= y

\* C21: of two tasks with the same energy match and the same deadline
\* urgency, the one with the higher priority weight has a score that is
\* greater than or equal to the other's
C21_MonotoneInPriority ==
  Reordered =>
    \A i, j \in DOMAIN page.input :
      LET a == page.input[i]
          b == page.input[j]
      IN (/\ getEnergyMatchScore(a, page.userEnergy) = getEnergyMatchScore(b, page.userEnergy)
          /\ getDeadlineUrgencyScore(a, page.currentTime) = getDeadlineUrgencyScore(b, page.currentTime)
          /\ WeightOf(a.priority) >= WeightOf(b.priority))
         => ScoreAtLeast(page.scores[i], page.scores[j])

\* C22: after an optimization with no other operation in between, the task
\* list is the incomplete tasks in the order suggestTaskReorder gave them,
\* then the completed tasks in the order they had; only incomplete tasks
\* were scored
C22_CompletedKeptAfterActive ==
  (Dashboard /\ page.fin.valid /\ ~page.fin.others) =>
    /\ page.state = page.fin.optimized \o CompletedOf(page.fin.before, page.objs)
    /\ page.tm = page.state
    /\ IdsOf(page.fin.optimized) = IdsOf(ActiveOf(page.fin.before, page.objs))
    /\ Len(page.fin.optimized) = Len(ActiveOf(page.fin.before, page.objs))
    /\ \A k \in DOMAIN page.fin.scored : ~page.objs[page.fin.scored[k]].completed

C22_Witness ==
  /\ Dashboard /\ page.fin.valid /\ ~page.fin.others
  /\ Len(CompletedOf(page.fin.before, page.objs)) = 1
  /\ Len(page.fin.optimized) = 2
  /\ page.fin.before[1] = page.state[3]
  /\ page.fin.before[2] = page.state[2]

Occurrences(tasks, id) == Cardinality({k \in DOMAIN tasks : tasks[k] = id})

\* C27: when the lists agreed with the server at the start of an
\* optimization and a task was added, toggled or deleted while it awaited
\* the result, every task the server holds appears exactly once in the task
\* list after the optimization
C27_NoneLostNoneDuplicated ==
  (Dashboard /\ page.fin.valid /\ page.fin.inStep /\ page.fin.others) =>
    \A id \in page.server :
      Occurrences(page.state, id) = 1 /\ Occurrences(page.tm, id) = 1

\* C28: while no optimization is under way, Dashboard.state.tasks and
\* TaskManager.tasks hold the same set of tasks
C28_SameTasks ==
  (Dashboard /\ page.opt.phase = "idle") => IdsOf(page.state) = IdsOf(page.tm)

Generated == page.fn = "generateResponse"

\* a keyword of the group occurs in the lower-cased message
Mentions(group) ==
  \E keyword \in group : includes(toLowerCase(page.message), keyword)

FocusGroup == {<<"f", "o", "c", "u", "s">>, <<"c", "o", "n", "c", "e", "n", "t", "r", "a", "t", "e">>}

ProductivityGroup == {<<"p", "r", "o", "d", "u", "c", "t", "i", "v", "i", "t", "y">>, <<"p", "r", "o", "d", "u", "c", "t", "i", "v", "e">>}

ScheduleGroup == {<<"s", "c", "h", "e", "d", "u", "l", "e">>, <<"c", "a", "l", "e", "n", "d", "a", "r">>}

TaskGroup == {<<"t", "a", "s", "k">>, <<"t", "a", "s", "k", "s">>}

\* C23: the response is the one of the first of the groups focus,
\* productivity, schedule, task that has a keyword in the lower-cased
\* message, and the default response when none has; a message with both
\* 'schedule' and 'task' gets the schedule summary
C23_FirstGroupWins ==
  Generated =>
    /\ Mentions(FocusGroup) => page.out = "getFocusResponse"
    /\ (~Mentions(FocusGroup) /\ Mentions(ProductivityGroup))
         => page.out = "getProductivityResponse"
    /\ (~Mentions(FocusGroup) /\ ~Mentions(ProductivityGroup) /\ Mentions(ScheduleGroup))
         => page.out = "getScheduleResponse"
    /\ (~Mentions(FocusGroup) /\ ~Mentions(ProductivityGroup) /\ ~Mentions(ScheduleGroup)
        /\ Mentions(TaskGroup)) => page.out = "getTasksResponse"
    /\ (~Mentions(FocusGroup) /\ ~Mentions(ProductivityGroup) /\ ~Mentions(ScheduleGroup)
        /\ ~Mentions(TaskGroup)) => page.out = "getDefaultResponse"
    /\ (includes(page.message, <<"s", "c", "h", "e", "d", "u", "l", "e">>) /\ includes(page.message, <<"t", "a", "s", "k">>)
        /\ ~Mentions(FocusGroup) /\ ~Mentions(ProductivityGroup))
         => page.out = "getScheduleResponse"

C23_Witness ==
  /\ Generated
  /\ page.message = <<"T", "a", "s", "k", "s", " ", "S", "C", "H", "E", "D", "U", "L", "E">>
  /\ page.out = "getScheduleResponse"

\* C24: a response of forgot-password to the email of the account is the
\* response it gives to an email without account
C24_SameResponse ==
  Serving =>
    \A r1 \in auth.seenRegistered, r2 \in auth.seenUnknown :
      r1.status = r2.status /\ r1.message = r2.message

\* C25: while twoFactorEnabled is set, no response of POST /api/auth/login
\* carries a token
C25_NoTokenFromLogin ==
  (Serving /\ auth.last.route = "login" /\ auth.last.twoFactor) => ~auth.last.token

\* C26: no 2FA code yields more than one token
C26_OneTokenPerCode ==
  Serving => \A c \in DOMAIN auth.tokensFor : auth.tokensFor[c] <= 1

SecretFields == {"password", "pendingTwoFactor", "passwordReset", "googleCalendarTokens"}

\* C30: the body of no response holds the password hash, a pending 2FA
\* code, a password-reset token or the Google Calendar tokens
C30_NoSecretInResponse ==
  Serving => auth.last.fields \cap SecretFields = {}

\* C29: the step index stays within 0..totalSteps, and when
\* finishOnboarding has run, each of the steps 1 to 5 was shown, validated
\* and collected, and the saved preferences hold every field, notifications
\* included
C29_AllStepsBeforeFinish ==
  Onboarding =>
    /\ page.currentStep \in 0..totalSteps
    /\ page.finished =>
         /\ \A step \in 1..5 :
              step \in page.shown /\ step \in page.validated /\ step \in page.collected
         /\ SurveyFields \subseteq page.preferences

====
